---- MODULE Spec2Model ----
(***************************************************************************)
(* Flask-Dogpile-Cache (flask_dogpile_cache.py): the DogpileCache facade   *)
(* over dogpile.cache regions.                                             *)
(*                                                                         *)
(* State: the facade's two registries (_cache_regions and                  *)
(* _cache_regions_decorators), the region-name attribute the decorator     *)
(* attaches to functions, the wrappers handed out by region(name), the     *)
(* cache servers the regions store into, and the wall clock.               *)
(*                                                                         *)
(* The regions are dogpile.cache CacheRegion objects.  What the facade     *)
(* calls on them is modelled by what dogpile.cache (>= 0.5.3, the first    *)
(* release whose CacheRegion.invalidate takes `hard`) does:                *)
(*   - a stored value carries its creation time ct;                        *)
(*   - region.invalidate(hard) only records a timestamp in the region      *)
(*     object; a value with ct before it is treated as missing (hard) or   *)
(*     as expired (soft); nothing is deleted on the server;                *)
(*   - get_or_create returns the stored value when it is usable and        *)
(*     otherwise calls the creator and stores what it returned;            *)
(*   - the decorated function's key is built from the function's module    *)
(*     and name and the positional arguments (functools.wraps makes the    *)
(*     wrapper carry the wrapped function's module, name and __dict__);    *)
(*   - decorated.set / invalidate / refresh: set stores the value, never   *)
(*     calling the function; invalidate deletes the key on the server;     *)
(*     refresh calls the function it decorates and stores the result.      *)
(* Every handler runs to completion in one step (one thread).  Time is      *)
(* counted in units in which any two writes of a timestamp (the creation   *)
(* time of a stored value, the invalidation time of a region) by different *)
(* calls differ; a call that only reads the clock sees the current time.   *)
(***************************************************************************)
EXTENDS Integers, Sequences, FiniteSets, TLC

VARIABLES
    cache_regions,            \* self._cache_regions
    cache_regions_decorators, \* self._cache_regions_decorators
    attr,                     \* func.dogpile_cache_region_name per plain function
    wrappers,                 \* the wrappers region(name)(func) made so far
    store,                    \* the cache servers: url -> key -> stored value
    now,                      \* the current time, time.time()
    last,                     \* the last facade call and its outcome
    init_run                  \* the line a running init_app call is at

vars == <<cache_regions, cache_regions_decorators, attr, wrappers, store,
          now, last, init_run>>

----------------------------------------------------------------------------
(* Bounds *)

MaxTime == 3

----------------------------------------------------------------------------
(* Domains of the inputs *)

Funcs == {"f", "g"}
RegionNames == {"hour", "day", "ghost"}
CustomValues == {99}

\* The inputs of the two specifications.  A decoration region(name)(fn) is
\* written <<fn, name>>.
\*   Spec, the facade's life cycle: every method, every region name, good
\*   and bad configurations, f bound to a configured and to an unconfigured
\*   region, g never bound; calls without arguments.
\*   SpecCache, the cached values: the configuration and the functions of
\*   tests.py, f bound to "hour" and g to "day", f called with and without
\*   an argument.
\*   SpecAlias, one function behind two regions: region("hour")(f) and
\*   region("day")(f), both regions on the one server of tests.py.
Decorations == {<<"f", "hour">>, <<"f", "ghost">>}
ArgTuples(fn) == {<< >>}
CacheDecorations == {<<"f", "hour">>, <<"g", "day">>}
CacheArgTuples(fn) == IF fn = "f" THEN {<< >>, <<1>>} ELSE {<< >>}
CacheRegionNames == {"hour", "day"}
AliasDecorations == {<<"f", "hour">>, <<"f", "day">>}
Urls == {"u1"}
KnownBackends == {"dogpile.cache.memcached", "dogpile.cache.pylibmc"}
DictValues == {"{}", "{binary}"}

NOATTR == "<no attribute>"
ABSENT == "<absent>"
NONE == "None"

\* A callable object: a plain function (name = "") or the wrapper that
\* region(name)(func) returns.  Two wrappers of the same function made
\* with the same name behave alike and are not told apart.
Plain(fn) == [func |-> fn, name |-> ""]
WrapperOf(fn, name) == [func |-> fn, name |-> name]
WrapperIds ==
    {WrapperOf(d[1], d[2]) :
        d \in Decorations \cup CacheDecorations \cup AliasDecorations}

\* what a caller can pass to invalidate / refresh / set
Objects == {Plain(fn) : fn \in Funcs} \cup WrapperIds
CacheObjects ==
    {Plain("f")} \cup {WrapperOf(d[1], d[2]) : d \in CacheDecorations}
AliasObjects ==
    {Plain("f")} \cup {WrapperOf(d[1], d[2]) : d \in AliasDecorations}

----------------------------------------------------------------------------
(* The cached functions.  Like the functions of tests.py they return a     *)
(* value read from outside the cache plus their argument.  What is outside *)
(* may change between two calls: drift, 0 or 1, is an input of every call  *)
(* that can run a function and says what the function would return now.    *)

Base(fn) == IF fn = "f" THEN 10 ELSE 20

Delta(args) == IF Len(args) = 0 THEN 0 ELSE args[1]

Compute(fn, args, drift) == Base(fn) + Delta(args) + 5 * drift

Drifts == {0, 1}

----------------------------------------------------------------------------
(* dogpile.cache as the facade uses it *)

\* function_key_generator: module:name|args.  A wrapper made with
\* functools.wraps has the module and name of the function it wraps.
Key(fn, args) == <<fn, args>>

Keys == {Key(fn, a) : fn \in Funcs, a \in {<< >>, <<1>>}}

NO_VALUE == [has |-> FALSE, payload |-> 0, ct |-> 0]

CachedValue(v, t) == [has |-> TRUE, payload |-> v, ct |-> t]

EmptyStore == [u \in Urls |-> [k \in Keys |-> NO_VALUE]]

\* make_region().configure(backend, expiration_time, arguments, wrap):
\* a fresh region object, never invalidated.  0 stands for "no timestamp".
NewRegion(backend, timeout, url, arguments) ==
    [backend |-> backend, expiration_time |-> timeout, url |-> url,
     arguments |-> arguments, hard_invalidated |-> 0, soft_invalidated |-> 0]

\* CacheRegion.invalidate(hard) at time t
RegionInvalidate(r, hard, t) ==
    IF hard
    THEN [r EXCEPT !.hard_invalidated = t, !.soft_invalidated = 0]
    ELSE [r EXCEPT !.hard_invalidated = 0, !.soft_invalidated = t]

\* get_or_create's get_value: the stored value is missing, or was created
\* before a hard invalidation of this region object
NeedRegeneration(r, e) ==
    \/ ~e.has
    \/ r.hard_invalidated # 0 /\ e.ct < r.hard_invalidated

\* the creation time get_value reports: a softly invalidated value is
\* reported as created just before the expiration time ago
ReportedCt(r, e, t) ==
    IF r.soft_invalidated # 0 /\ e.ct < r.soft_invalidated
    THEN t - r.expiration_time - 1
    ELSE e.ct

\* dogpile Lock._is_expired
IsExpired(r, e, t) == t - ReportedCt(r, e, t) > r.expiration_time

\* the region returns the stored value of e at time t without regenerating
Usable(r, e, t) == ~NeedRegeneration(r, e) /\ ~IsExpired(r, e, t)

\* CacheRegion.set(key, value) at time t
RegionSet(st, r, k, v, t) == [st EXCEPT ![r.url][k] = CachedValue(v, t)]

\* CacheRegion.delete(key)
RegionDelete(st, r, k) == [st EXCEPT ![r.url][k] = NO_VALUE]

\* the outcome of running a piece of code: the value returned or the error
\* raised, the number of times a plain function ran, and the store and the
\* clock it leaves
Outcome(val, err, calls, st, t) ==
    [val |-> val, err |-> err, calls |-> calls, store |-> st, now |-> t]

\* CacheRegion.get_or_create(key, creator) with creator = fn(*args), fn a
\* plain function, at time t; a regenerated value is stamped t + 1
GetOrCreate(st, r, fn, args, drift, t) ==
    LET k == Key(fn, args)
        e == st[r.url][k]
    IN  IF Usable(r, e, t)
        THEN Outcome(e.payload, "", 0, st, t)
        ELSE LET v == Compute(fn, args, drift)
             IN  Outcome(v, "", 1, RegionSet(st, r, k, v, t + 1), t + 1)

----------------------------------------------------------------------------
(* The facade's state *)

\* _cache_regions and _cache_regions_decorators are either an instance of
\* NotInitialized or a dict from region name to region / region decorator
NotInitialized == [isdict |-> FALSE, d |-> [n \in {} |-> 0]]

Dict(d) == [isdict |-> TRUE, d |-> d]

EmptyDict == [n \in {} |-> 0]

\* an assignment that would replace the dict by one with the new key only
DictPut_Last(d, k, v) == [n \in {k} |-> v]

DictPut(d, k, v) == [n \in (DOMAIN d) \cup {k} |-> IF n = k THEN v ELSE d[n]]

\* region.cache_on_arguments(): the decorator of one region object.  A
\* region and its decorator are always registered together under the same
\* name (lines 163-164), so the decorator names its region by that name.
CacheOnArguments(name) == [region |-> name]

IsWrapper(o) == o.name # ""

\* the objects that exist: the plain functions and the wrappers made so far
Live(o) == ~IsWrapper(o) \/ o \in wrappers

\* __name__ of the object: functools.wraps copies it from the function
NameOf(o) == o.func

\* getattr(o, FUNC_REGION_NAME_ATTR): set on the function by decorator();
\* functools.wraps copies the function's __dict__, with the attribute just
\* set, into the wrapper
RegionNameAttr(o) == IF IsWrapper(o) THEN o.name ELSE attr[o.func]

----------------------------------------------------------------------------
(* Configuration and init_app *)

\* a configuration dict: regions_key says whether DOGPILE_CACHE_REGIONS is
\* a list, None or absent; backend, urls and arguments are the value of
\* DOGPILE_CACHE_BACKEND / _URLS / _ARGUMENTS, NONE or ABSENT
Config(regions_key, regions, backend, urls, arguments) ==
    [regions_key |-> regions_key, regions |-> regions, backend |-> backend,
     urls |-> urls, arguments |-> arguments]

\* the configuration of tests.py (one server for every region)
ConfigTests ==
    Config("list",
           << <<"hour", 2, "dogpile.cache.memcached", "u1">>, <<"day", 4>> >>,
           "dogpile.cache.memcached", "u1", "{binary}")

ConfigEmpty == Config("list", << >>, ABSENT, "u1", ABSENT)

ConfigShortTuple ==
    Config("list", << <<"hour", 2>>, <<"bad">> >>, ABSENT, "u1", ABSENT)

Configs == {ConfigTests, ConfigEmpty, ConfigShortTuple}

\* no DOGPILE_CACHE_REGIONS key at all
ConfigMissing == Config(ABSENT, << >>, ABSENT, "u1", ABSENT)

\* DOGPILE_CACHE_REGIONS = None
ConfigNone == Config(NONE, << >>, ABSENT, "u1", ABSENT)

\* DOGPILE_CACHE_ARGUMENTS = None
ConfigBadArguments == Config("list", << <<"hour", 2>> >>, ABSENT, "u1", NONE)

\* a tuple whose fifth element is not a dict
ConfigBadTupleArguments ==
    Config("list",
           << <<"hour", 2, "dogpile.cache.memcached", "u1", NONE>> >>,
           ABSENT, "u1", ABSENT)

\* DOGPILE_CACHE_BACKEND = None and a tuple without backend
ConfigNoBackend == Config("list", << <<"hour", 2>> >>, NONE, "u1", ABSENT)

\* no DOGPILE_CACHE_URLS and a tuple without urls
ConfigNoUrls ==
    Config("list", << <<"hour", 2, "dogpile.cache.pylibmc">> >>,
           ABSENT, ABSENT, ABSENT)

\* no global backend or urls, both given by the tuple
ConfigPerRegion ==
    Config("list", << <<"hour", 2, "dogpile.cache.pylibmc", "u1">> >>,
           NONE, ABSENT, ABSENT)

\* a tuple that gives None as its urls, and no DOGPILE_CACHE_URLS
ConfigTupleUrlsNone ==
    Config("list", << <<"hour", 2, "dogpile.cache.memcached", NONE>> >>,
           ABSENT, ABSENT, ABSENT)

\* two tuples with the same region name
ConfigDuplicate ==
    Config("list", << <<"hour", 2>>, <<"hour", 4>> >>, ABSENT, "u1", ABSENT)

\* the simplest config of the docstring, lines 50-55
ConfigSimplest ==
    Config("list", << <<"hour", 2>>, <<"day", 4>> >>, ABSENT, "u1", ABSENT)

InitConfigs ==
    {ConfigTests, ConfigSimplest, ConfigPerRegion, ConfigEmpty,
     ConfigShortTuple, ConfigMissing, ConfigNone, ConfigBadArguments,
     ConfigBadTupleArguments, ConfigNoBackend, ConfigNoUrls,
     ConfigTupleUrlsNone, ConfigDuplicate}

CacheConfigs == {ConfigTests}

\* config.setdefault(key, default)
SetDefault(value, default) == IF value = ABSENT THEN default ELSE value

\* Python truth of a configuration value
Truthy(value) == value \notin {ABSENT, NONE, ""}

\* one round of the loop of _set_cache_regions: the region built from
\* region_tuple, or the error raised
RegionFromTuple(region_tuple, backend, urls, arguments) ==
    IF Len(region_tuple) < 2 THEN [err |-> "ValueError"]
    ELSE IF Len(region_tuple) <= 2 /\ ~Truthy(backend) THEN [err |-> "ValueError"]
    ELSE IF Len(region_tuple) <= 3 /\ ~Truthy(urls) THEN [err |-> "ValueError"]
    ELSE IF Len(region_tuple) > 4 /\ region_tuple[5] \notin DictValues
         THEN [err |-> "ValueError"]
    ELSE LET region_backend == IF Len(region_tuple) > 2 THEN region_tuple[3]
                               ELSE backend
             region_urls == IF Len(region_tuple) > 3 THEN region_tuple[4]
                            ELSE urls
             region_arguments == IF Len(region_tuple) > 4 THEN region_tuple[5]
                                 ELSE arguments
         IN  IF region_backend \notin KnownBackends
             THEN [err |-> "PluginError"]
             ELSE [err |-> "", name |-> region_tuple[1],
                   region |-> NewRegion(region_backend, region_tuple[2],
                                        region_urls, region_arguments)]

\* the loop of _set_cache_regions from tuple i on, with the dicts filled so
\* far: the dicts when the loop ends or an error leaves it
RECURSIVE SetCacheRegionsLoop(_, _, _, _, _, _, _)
SetCacheRegionsLoop(regions, i, backend, urls, arguments, regs, decs) ==
    IF i > Len(regions)
    THEN [err |-> "", regions |-> regs, decorators |-> decs]
    ELSE LET r == RegionFromTuple(regions[i], backend, urls, arguments)
         IN  IF r.err # ""
             THEN [err |-> r.err, regions |-> regs, decorators |-> decs]
             ELSE SetCacheRegionsLoop(
                      regions, i + 1, backend, urls, arguments,
                      DictPut(regs, r.name, r.region),
                      DictPut(decs, r.name, CacheOnArguments(r.name)))

\* _set_cache_regions: both dicts are assigned empty first, then filled
SetCacheRegions(regions, backend, urls, arguments) ==
    LET done == SetCacheRegionsLoop(regions, 1, backend, urls, arguments,
                                    EmptyDict, EmptyDict)
    IN  [err |-> done.err, cache_regions |-> Dict(done.regions),
         cache_regions_decorators |-> Dict(done.decorators)]

\* init_app(app, config): the error raised and the registries it leaves
InitAppResult(config) ==
    LET backend == SetDefault(config.backend, "dogpile.cache.memcached")
        urls == SetDefault(config.urls, NONE)
        arguments == SetDefault(config.arguments, "{}")
        unchanged == [cache_regions |-> cache_regions,
                      cache_regions_decorators |-> cache_regions_decorators]
    IN  IF config.regions_key = ABSENT
        THEN [err |-> "KeyError"] @@ unchanged
        ELSE IF ~(config.regions_key = "list" /\ Len(config.regions) > 0)
        THEN [err |-> "ValueError"] @@ unchanged
        ELSE IF arguments \notin DictValues
        THEN [err |-> "ValueError"] @@ unchanged
        ELSE SetCacheRegions(config.regions, backend, urls, arguments)

\* the checks of init_app before it calls _set_cache_regions, lines 96-105:
\* the error raised, "" for none
InitAppCheckErr(config) ==
    IF config.regions_key = ABSENT THEN "KeyError"
    ELSE IF ~(config.regions_key = "list" /\ Len(config.regions) > 0)
    THEN "ValueError"
    ELSE IF SetDefault(config.arguments, "{}") \notin DictValues
    THEN "ValueError"
    ELSE ""

\* no init_app call is running
NoInitRun ==
    [pc |-> "idle", config |-> Config(ABSENT, << >>, ABSENT, ABSENT, ABSENT),
     i |-> 0]

\* an init_app call with this configuration is at line pc, in round i of
\* the loop of _set_cache_regions
InitRun(pc, config, i) == [pc |-> pc, config |-> config, i |-> i]

----------------------------------------------------------------------------
(* The facade's methods, as the outcome of one call in the current state   *)
(* at the current time.                                                    *)

Raise(err) == Outcome(0, err, 0, store, now)

\* get_region(region_name): the error raised, "" when it returns the region
GetRegionErr(region_name) ==
    IF ~cache_regions.isdict THEN "RuntimeError"
    ELSE IF region_name \notin DOMAIN cache_regions.d THEN "KeyError"
    ELSE ""

\* get_all_regions()
GetAllRegionsErr == IF ~cache_regions.isdict THEN "RuntimeError" ELSE ""

\* get_region_decorator without the isinstance check of line 207
GetRegionDecoratorErr_NoCheck(region_name) ==
    IF region_name \notin DOMAIN cache_regions_decorators.d THEN "KeyError"
    ELSE ""

\* get_region_decorator(region_name)
GetRegionDecoratorErr(region_name) ==
    IF ~cache_regions_decorators.isdict THEN "RuntimeError"
    ELSE IF region_name \notin DOMAIN cache_regions_decorators.d THEN "KeyError"
    ELSE ""

\* the region object behind the decorator get_region_decorator returns
DecoratorRegion(region_name) ==
    cache_regions.d[cache_regions_decorators.d[region_name].region]

\* a wrapper that calls func itself where line 232 calls the decorated func
WrapperCall_Uncached(w, args, drift) ==
    IF ~cache_regions.isdict THEN Raise("TypeError")
    ELSE IF w.name \in DOMAIN cache_regions.d
    THEN Outcome(Compute(w.func, args, drift), "", 1, store, now)
    ELSE Raise("KeyError")

\* a wrapper that calls func itself when its region is not configured
WrapperCall_Fallthrough(w, args, drift) ==
    IF ~cache_regions.isdict THEN Raise("TypeError")
    ELSE IF w.name \in DOMAIN cache_regions.d
    THEN IF GetRegionDecoratorErr(w.name) # ""
         THEN Raise(GetRegionDecoratorErr(w.name))
         ELSE GetOrCreate(store, DecoratorRegion(w.name), w.func, args, drift, now)
    ELSE Outcome(Compute(w.func, args, drift), "", 1, store, now)

\* wrapper(*args) of region(name)(func), lines 229-234.  `name in
\* self._cache_regions` on a NotInitialized instance is a TypeError: the
\* class defines neither __contains__ nor __iter__.
WrapperCall(w, args, drift) ==
    LET name == w.name
        func == w.func
    IN  IF ~cache_regions.isdict THEN Raise("TypeError")
        ELSE IF name \in DOMAIN cache_regions.d
        THEN IF GetRegionDecoratorErr(name) # ""
             THEN Raise(GetRegionDecoratorErr(name))
             ELSE GetOrCreate(store, DecoratorRegion(name), func, args, drift, now)
        ELSE Raise("KeyError")

\* o(*args) if a wrapper were unwrapped to its function before the call
Apply_Unwrapped(o, args, drift) ==
    Outcome(Compute(o.func, args, drift), "", 1, store, now)

\* o(*args) for what the caller passed: a wrapper or a plain function
Apply(o, args, drift) ==
    IF IsWrapper(o) THEN WrapperCall(o, args, drift)
    ELSE Outcome(Compute(o.func, args, drift), "", 1, store, now)

\* getattr(func, '_region_name', None) in place of getattr without default
ResolveErr_Default(o) == GetRegionDecoratorErr(RegionNameAttr(o))

\* the lines invalidate, refresh and set begin with: getattr, then
\* get_region_decorator
ResolveErr(o) ==
    IF RegionNameAttr(o) = NOATTR THEN "AttributeError"
    ELSE GetRegionDecoratorErr(RegionNameAttr(o))

\* invalidate that drops *args at line 291
InvalidateResult_NoArgs(o, args) ==
    IF ResolveErr(o) # "" THEN Raise(ResolveErr(o))
    ELSE Outcome(0, "", 0,
                 RegionDelete(store, DecoratorRegion(RegionNameAttr(o)),
                              Key(NameOf(o), << >>)),
                 now)

\* invalidate(func, *args): decorated.invalidate deletes the key
InvalidateResult(o, args) ==
    IF ResolveErr(o) # "" THEN Raise(ResolveErr(o))
    ELSE Outcome(0, "", 0,
                 RegionDelete(store, DecoratorRegion(RegionNameAttr(o)),
                              Key(NameOf(o), args)),
                 now)

\* refresh that computes with the original function whatever is stored
RefreshResult_Recompute(o, args, drift) ==
    IF ResolveErr(o) # "" THEN Raise(ResolveErr(o))
    ELSE LET v == Compute(o.func, args, drift)
         IN  Outcome(v, "", 1,
                     RegionSet(store, DecoratorRegion(RegionNameAttr(o)),
                               Key(NameOf(o), args), v, now + 1),
                     now + 1)

\* refresh(func, *args): decorated.refresh calls what it decorates, which
\* is the object the caller passed, and stores what that returned
RefreshResult(o, args, drift) ==
    IF ResolveErr(o) # "" THEN Raise(ResolveErr(o))
    ELSE LET got == Apply(o, args, drift)
         IN  IF got.err # "" THEN got
             ELSE Outcome(got.val, "", got.calls,
                          RegionSet(got.store,
                                    DecoratorRegion(RegionNameAttr(o)),
                                    Key(NameOf(o), args), got.val, now + 1),
                          now + 1)

\* set that drops *args at line 333
SetResult_NoArgs(o, value, args) ==
    IF ResolveErr(o) # "" THEN Raise(ResolveErr(o))
    ELSE Outcome(0, "", 0,
                 RegionSet(store, DecoratorRegion(RegionNameAttr(o)),
                           Key(NameOf(o), << >>), value, now + 1),
                 now + 1)

\* set(func, value, *args): decorated.set stores the value
SetResult(o, value, args) ==
    IF ResolveErr(o) # "" THEN Raise(ResolveErr(o))
    ELSE Outcome(0, "", 0,
                 RegionSet(store, DecoratorRegion(RegionNameAttr(o)),
                           Key(NameOf(o), args), value, now + 1),
                 now + 1)

\* invalidate_region that invalidates every region
InvalidateRegionResult_All(regions, region_name, hard, t) ==
    [regions EXCEPT !.d = [n \in DOMAIN regions.d |->
                              RegionInvalidate(regions.d[n], hard, t)]]

\* invalidate_region(region_name, hard) at time t: the registry it leaves
InvalidateRegionResult(regions, region_name, hard, t) ==
    [regions EXCEPT !.d[region_name] = RegionInvalidate(@, hard, t)]

\* invalidate_all_regions that leaves the region "day" out
InvalidateAllRegionsResult_First(regions, hard, t) ==
    [regions EXCEPT !.d = [n \in DOMAIN regions.d |->
                              IF n = "day" THEN regions.d[n]
                              ELSE RegionInvalidate(regions.d[n], hard, t)]]

\* the orders in which .keys() may list the keys of a dict
KeyOrders(d) ==
    {order \in [1..Cardinality(DOMAIN d) -> DOMAIN d] :
        \A i, j \in DOMAIN order : order[i] = order[j] => i = j}

\* the loop of invalidate_all_regions from key i of order on, with
\* region.invalidate raising for the regions in failing: the loop has no
\* try, so the first error leaves it
RECURSIVE InvalidateAllRegionsLoop(_, _, _, _, _, _)
InvalidateAllRegionsLoop(regions, order, i, hard, t, failing) ==
    IF i > Len(order) THEN [err |-> "", regions |-> regions]
    ELSE IF order[i] \in failing
    THEN [err |-> "EngineError", regions |-> regions]
    ELSE InvalidateAllRegionsLoop(
             InvalidateRegionResult(regions, order[i], hard, t),
             order, i + 1, hard, t, failing)

\* invalidate_all_regions(hard): invalidate_region for every key
InvalidateAllRegionsResult(regions, hard, t) ==
    [regions EXCEPT !.d = [n \in DOMAIN regions.d |->
                              RegionInvalidate(regions.d[n], hard, t)]]

----------------------------------------------------------------------------
(* Actions: one per call a program can make *)

\* what the last call was and how it ended: val is the value returned (0
\* for None and for a region or decorator, the number of entries for the
\* dict get_all_regions returns), err the exception raised ("" for
\* none), calls the number of times a plain cached function ran in it
Did(op, obj, args, val, err, calls) ==
    [op |-> op, obj |-> obj, args |-> args, val |-> val, err |-> err,
     calls |-> calls]

\* DogpileCache() with no app: __init__, lines 76-81
Init ==
    /\ cache_regions = NotInitialized
    /\ cache_regions_decorators = NotInitialized
    /\ attr = [fn \in Funcs |-> NOATTR]
    /\ wrappers = {}
    /\ store = EmptyStore
    /\ now = 0
    /\ last = Did("__init__", Plain(""), << >>, 0, "", 0)
    /\ init_run = NoInitRun

\* cache.init_app(app, config)
InitApp(config) ==
    LET res == InitAppResult(config)
    IN  /\ cache_regions' = res.cache_regions
        /\ cache_regions_decorators' = res.cache_regions_decorators
        /\ last' = Did("init_app", Plain(""), << >>, 0, res.err, 0)
        /\ UNCHANGED <<attr, wrappers, store, now, init_run>>

\* cache.region(name)(fn) for a plain function fn, lines 225-236
Decorate(fn, name) ==
    /\ attr' = [attr EXCEPT ![fn] = name]
    /\ wrappers' = wrappers \cup {WrapperOf(fn, name)}
    /\ last' = Did("region", WrapperOf(fn, name), << >>, 0, "", 0)
    /\ UNCHANGED <<cache_regions, cache_regions_decorators, store, now,
                   init_run>>

\* the effect of a call with outcome out on the store and the clock
Finish(op, obj, args, out) ==
    /\ out.now <= MaxTime
    /\ store' = out.store
    /\ now' = out.now
    /\ last' = Did(op, obj, args, out.val, out.err, out.calls)

\* w(*args) for a wrapper w
Call(w, args, drift) ==
    /\ w \in wrappers
    /\ Finish("call", w, args, WrapperCall(w, args, drift))
    /\ UNCHANGED <<cache_regions, cache_regions_decorators, attr, wrappers,
                   init_run>>

\* cache.invalidate(o, *args)
Invalidate(o, args) ==
    /\ Live(o)
    /\ Finish("invalidate", o, args, InvalidateResult(o, args))
    /\ UNCHANGED <<cache_regions, cache_regions_decorators, attr, wrappers,
                   init_run>>

\* cache.refresh(o, *args)
Refresh(o, args, drift) ==
    /\ Live(o)
    /\ Finish("refresh", o, args, RefreshResult(o, args, drift))
    /\ UNCHANGED <<cache_regions, cache_regions_decorators, attr, wrappers,
                   init_run>>

\* cache.set(o, value, *args)
Set(o, value, args) ==
    /\ Live(o)
    /\ Finish("set", o, args, SetResult(o, value, args))
    /\ UNCHANGED <<cache_regions, cache_regions_decorators, attr, wrappers,
                   init_run>>

\* cache.invalidate_region(region_name, hard)
InvalidateRegion(region_name, hard) ==
    /\ IF GetRegionErr(region_name) # ""
       THEN /\ last' = Did("invalidate_region", Plain(region_name), << >>, 0,
                           GetRegionErr(region_name), 0)
            /\ UNCHANGED <<cache_regions, now>>
       ELSE /\ now + 1 <= MaxTime
            /\ now' = now + 1
            /\ cache_regions' =
                   InvalidateRegionResult(cache_regions, region_name, hard, now + 1)
            /\ last' = Did("invalidate_region", Plain(region_name), << >>, 0, "", 0)
    /\ UNCHANGED <<cache_regions_decorators, attr, wrappers, store, init_run>>

\* cache.invalidate_all_regions(hard)
InvalidateAllRegions(hard) ==
    /\ IF GetAllRegionsErr # ""
       THEN /\ last' = Did("invalidate_all_regions", Plain(""), << >>, 0,
                           GetAllRegionsErr, 0)
            /\ UNCHANGED <<cache_regions, now>>
       ELSE /\ now + 1 <= MaxTime
            /\ now' = now + 1
            /\ cache_regions' =
                   InvalidateAllRegionsResult(cache_regions, hard, now + 1)
            /\ last' = Did("invalidate_all_regions", Plain(""), << >>, 0, "", 0)
    /\ UNCHANGED <<cache_regions_decorators, attr, wrappers, store, init_run>>

\* cache.get_region(region_name)
GetRegion(region_name) ==
    /\ last' = Did("get_region", Plain(region_name), << >>, 0,
                   GetRegionErr(region_name), 0)
    /\ UNCHANGED <<cache_regions, cache_regions_decorators, attr, wrappers,
                   store, now, init_run>>

\* cache.get_all_regions()
GetAllRegions ==
    /\ last' = Did("get_all_regions", Plain(""), << >>,
                   Cardinality(DOMAIN cache_regions.d), GetAllRegionsErr, 0)
    /\ UNCHANGED <<cache_regions, cache_regions_decorators, attr, wrappers,
                   store, now, init_run>>

\* cache.get_region_decorator(region_name)
GetRegionDecorator(region_name) ==
    /\ last' = Did("get_region_decorator", Plain(region_name), << >>, 0,
                   GetRegionDecoratorErr(region_name), 0)
    /\ UNCHANGED <<cache_regions, cache_regions_decorators, attr, wrappers,
                   store, now, init_run>>

\* time passes with no call
Tick ==
    /\ now + 1 <= MaxTime
    /\ now' = now + 1
    /\ UNCHANGED <<cache_regions, cache_regions_decorators, attr, wrappers,
                   store, last, init_run>>

----------------------------------------------------------------------------
(* init_app running in one thread while other threads call the facade: the *)
(* class takes no lock, so the call is split at its writes to the two      *)
(* registries, lines 117, 118, 163 and 164.                                *)

\* the region of round i of the running init_app call
RunRegion ==
    RegionFromTuple(init_run.config.regions[init_run.i],
                    SetDefault(init_run.config.backend, "dogpile.cache.memcached"),
                    SetDefault(init_run.config.urls, NONE),
                    SetDefault(init_run.config.arguments, "{}"))

\* lines 88-113: the checks; an error ends the call at once
InitAppBegin(config) ==
    /\ init_run.pc = "idle"
    /\ IF InitAppCheckErr(config) # ""
       THEN /\ last' = Did("init_app", Plain(""), << >>, 0,
                           InitAppCheckErr(config), 0)
            /\ UNCHANGED init_run
       ELSE /\ init_run' = InitRun("117", config, 1)
            /\ UNCHANGED last
    /\ UNCHANGED <<cache_regions, cache_regions_decorators, attr, wrappers,
                   store, now>>

\* line 117
InitAssignRegions ==
    /\ init_run.pc = "117"
    /\ cache_regions' = Dict(EmptyDict)
    /\ init_run' = [init_run EXCEPT !.pc = "118"]
    /\ UNCHANGED <<cache_regions_decorators, attr, wrappers, store, now, last>>

\* line 118
InitAssignDecorators ==
    /\ init_run.pc = "118"
    /\ cache_regions_decorators' = Dict(EmptyDict)
    /\ init_run' = [init_run EXCEPT !.pc = "120"]
    /\ UNCHANGED <<cache_regions, attr, wrappers, store, now, last>>

\* lines 120-161: the next tuple is made into a region object, which no
\* other thread can see yet; the call ends when the tuples are used up or
\* one of them raises
InitLoop ==
    /\ init_run.pc = "120"
    /\ IF init_run.i > Len(init_run.config.regions)
       THEN /\ last' = Did("init_app", Plain(""), << >>, 0, "", 0)
            /\ init_run' = NoInitRun
       ELSE IF RunRegion.err # ""
       THEN /\ last' = Did("init_app", Plain(""), << >>, 0, RunRegion.err, 0)
            /\ init_run' = NoInitRun
       ELSE /\ init_run' = [init_run EXCEPT !.pc = "163"]
            /\ UNCHANGED last
    /\ UNCHANGED <<cache_regions, cache_regions_decorators, attr, wrappers,
                   store, now>>

\* line 163
InitPutRegion ==
    /\ init_run.pc = "163"
    /\ cache_regions' =
           Dict(DictPut(cache_regions.d, RunRegion.name, RunRegion.region))
    /\ init_run' = [init_run EXCEPT !.pc = "164"]
    /\ UNCHANGED <<cache_regions_decorators, attr, wrappers, store, now, last>>

\* line 164
InitPutDecorator ==
    /\ init_run.pc = "164"
    /\ cache_regions_decorators' =
           Dict(DictPut(cache_regions_decorators.d, RunRegion.name,
                        CacheOnArguments(RunRegion.name)))
    /\ init_run' = [init_run EXCEPT !.pc = "120", !.i = @ + 1]
    /\ UNCHANGED <<cache_regions, attr, wrappers, store, now, last>>

Next ==
    \/ \E config \in Configs : InitApp(config)
    \/ \E d \in Decorations : Decorate(d[1], d[2])
    \/ \E w \in WrapperIds, drift \in Drifts :
           \E args \in ArgTuples(w.func) : Call(w, args, drift)
    \/ \E o \in Objects : \E args \in ArgTuples(o.func) : Invalidate(o, args)
    \/ \E o \in Objects, drift \in Drifts :
           \E args \in ArgTuples(o.func) : Refresh(o, args, drift)
    \/ \E o \in Objects, value \in CustomValues :
           \E args \in ArgTuples(o.func) : Set(o, value, args)
    \/ \E region_name \in RegionNames, hard \in BOOLEAN :
           InvalidateRegion(region_name, hard)
    \/ \E hard \in BOOLEAN : InvalidateAllRegions(hard)
    \/ \E region_name \in RegionNames : GetRegion(region_name)
    \/ GetAllRegions
    \/ \E region_name \in RegionNames : GetRegionDecorator(region_name)
    \/ Tick

Spec == Init /\ [][Next]_vars

\* the same methods on the inputs of SpecCache; the three lookups, which
\* change nothing, are left to Spec
NextCache ==
    \/ \E config \in CacheConfigs : InitApp(config)
    \/ \E d \in CacheDecorations : Decorate(d[1], d[2])
    \/ \E d \in CacheDecorations, drift \in Drifts :
           \E args \in CacheArgTuples(d[1]) :
               Call(WrapperOf(d[1], d[2]), args, drift)
    \/ \E o \in CacheObjects :
           \E args \in CacheArgTuples(o.func) : Invalidate(o, args)
    \/ \E o \in CacheObjects, drift \in Drifts :
           \E args \in CacheArgTuples(o.func) : Refresh(o, args, drift)
    \/ \E o \in CacheObjects, value \in CustomValues :
           \E args \in CacheArgTuples(o.func) : Set(o, value, args)
    \/ \E region_name \in CacheRegionNames, hard \in BOOLEAN :
           InvalidateRegion(region_name, hard)
    \/ \E hard \in BOOLEAN : InvalidateAllRegions(hard)
    \/ Tick

SpecCache == Init /\ [][NextCache]_vars

\* cache.invalidate_all_regions(hard) when .keys() lists the regions in
\* this order and region.invalidate raises for the regions in failing
InvalidateAllRegionsFailing(hard, order, failing) ==
    LET done == InvalidateAllRegionsLoop(cache_regions, order, 1, hard,
                                         now + 1, failing)
    IN  /\ cache_regions.isdict
        /\ order \in KeyOrders(cache_regions.d)
        /\ failing \subseteq DOMAIN cache_regions.d
        /\ now + 1 <= MaxTime
        /\ now' = now + 1
        /\ cache_regions' = done.regions
        /\ last' = Did("invalidate_all_regions", Plain(""), << >>, 0,
                       done.err, 0)
        /\ UNCHANGED <<cache_regions_decorators, attr, wrappers, store,
                       init_run>>

\* configuration and registry: init_app on every kind of configuration,
\* the lookups and the invalidation of regions
NextInit ==
    \/ \E config \in InitConfigs : InitApp(config)
    \/ \E region_name \in RegionNames : GetRegion(region_name)
    \/ GetAllRegions
    \/ \E region_name \in RegionNames : GetRegionDecorator(region_name)
    \/ \E region_name \in RegionNames : InvalidateRegion(region_name, TRUE)
    \/ \E hard \in BOOLEAN, order \in KeyOrders(cache_regions.d) :
           \E failing \in SUBSET DOMAIN cache_regions.d :
               InvalidateAllRegionsFailing(hard, order, failing)

SpecInit == Init /\ [][NextInit]_vars

\* one thread in init_app, the other threads in the lookups, a wrapper
\* and invalidate_region
ThreadConfigs == {ConfigTests, ConfigShortTuple}

NextThreads ==
    \/ \E config \in ThreadConfigs : InitAppBegin(config)
    \/ InitAssignRegions
    \/ InitAssignDecorators
    \/ InitLoop
    \/ InitPutRegion
    \/ InitPutDecorator
    \/ Decorate("f", "hour")
    \/ \E drift \in Drifts : Call(WrapperOf("f", "hour"), << >>, drift)
    \/ \E region_name \in CacheRegionNames : GetRegion(region_name)
    \/ GetAllRegions
    \/ \E region_name \in CacheRegionNames : GetRegionDecorator(region_name)
    \/ \E region_name \in CacheRegionNames : InvalidateRegion(region_name, TRUE)

SpecThreads == Init /\ [][NextThreads]_vars

\* the function f decorated for "hour" and for "day" (line 226 runs at every
\* decoration), its wrappers called, set and invalidated
NextAlias ==
    \/ \E config \in CacheConfigs : InitApp(config)
    \/ \E d \in AliasDecorations : Decorate(d[1], d[2])
    \/ \E d \in AliasDecorations, drift \in Drifts :
           \E args \in CacheArgTuples(d[1]) :
               Call(WrapperOf(d[1], d[2]), args, drift)
    \/ \E o \in AliasObjects :
           \E args \in CacheArgTuples(o.func) : Invalidate(o, args)
    \/ \E o \in AliasObjects, value \in CustomValues :
           \E args \in CacheArgTuples(o.func) : Set(o, value, args)
    \/ Tick

SpecAlias == Init /\ [][NextAlias]_vars

----------------------------------------------------------------------------
(* Vocabulary of the properties *)

AllArgTuples == {<< >>, <<1>>}

\* the facade is Ready: init_app has built the registries
Ready == cache_regions.isdict /\ cache_regions_decorators.isdict

Uninitialized == ~cache_regions.isdict /\ ~cache_regions_decorators.isdict

\* w is a wrapper the program holds, bound to a region that is configured
BoundWrapper(w) ==
    /\ w \in wrappers
    /\ Ready
    /\ w.name \in DOMAIN cache_regions.d

\* the stored value w(*args) looks at
EntryOf(w, args) == store[cache_regions.d[w.name].url][Key(w.func, args)]

\* a valid entry for (w, args): a value is stored, it was stored no earlier
\* than the last invalidation of w's region, and it is no older than the
\* region's timeout
ValidEntry(w, args) ==
    LET r == cache_regions.d[w.name]
        e == EntryOf(w, args)
    IN  /\ e.has
        /\ e.ct >= r.hard_invalidated
        /\ e.ct >= r.soft_invalidated
        /\ now - e.ct <= r.expiration_time

\* everything but the record of the last call
state ==
    <<cache_regions, cache_regions_decorators, attr, wrappers, store, now,
      init_run>>

\* the step is the call named: the record of the call is compared first,
\* which decides most steps without evaluating the action
IsCall(w, args, drift) ==
    last'.op = "call" /\ last'.obj = w /\ last'.args = args
    /\ Call(w, args, drift)

IsInvalidate(o, args) ==
    last'.op = "invalidate" /\ last'.obj = o /\ last'.args = args
    /\ Invalidate(o, args)

IsRefresh(o, args, drift) ==
    last'.op = "refresh" /\ last'.obj = o /\ last'.args = args
    /\ Refresh(o, args, drift)

IsSet(o, value, args) ==
    last'.op = "set" /\ last'.obj = o /\ last'.args = args
    /\ Set(o, value, args)

IsInvalidateRegion(region_name, hard) ==
    last'.op = "invalidate_region" /\ last'.obj = Plain(region_name)
    /\ InvalidateRegion(region_name, hard)

IsInvalidateAllRegions(hard) ==
    last'.op = "invalidate_all_regions" /\ InvalidateAllRegions(hard)

----------------------------------------------------------------------------
(* C1: on a Ready facade, calling a wrapper bound to a configured region   *)
(* when no valid entry exists for its function and arguments runs the      *)
(* function exactly once, stores what it returned and returns it; when a   *)
(* valid entry exists the call returns the stored value and does not run   *)
(* the function, whatever the function would return now.                   *)
C1_CallThrough ==
    [][\A w \in WrapperIds, args \in AllArgTuples, drift \in Drifts :
         (BoundWrapper(w) /\ IsCall(w, args, drift)) =>
            IF ValidEntry(w, args)
            THEN /\ last'.err = ""
                 /\ last'.calls = 0
                 /\ last'.val = EntryOf(w, args).payload
                 /\ EntryOf(w, args)' = EntryOf(w, args)
            ELSE /\ last'.err = ""
                 /\ last'.calls = 1
                 /\ last'.val = Compute(w.func, args, drift)
                 /\ EntryOf(w, args)' = CachedValue(last'.val, now')
                 /\ ValidEntry(w, args)'
      ]_vars

\* a call answered from the cache with a value an earlier call computed
\* when the function returned something else than it would have otherwise
C1_Witness ==
    /\ last.op = "call" /\ last.err = "" /\ last.calls = 0
    /\ last.obj = WrapperOf("f", "hour") /\ last.args = <<1>>
    /\ last.val = Compute("f", <<1>>, 1)

----------------------------------------------------------------------------
(* C2: on a Ready facade, set(f, v, args) on a bound wrapper does not run  *)
(* the function and leaves a valid entry holding v; that entry stays valid *)
(* and keeps v over every step that is not an invalidate, refresh or set   *)
(* of the same function and arguments, an invalidate_region or an          *)
(* invalidate_all_regions, and does not carry it past its expiry; and a    *)
(* call that finds it returns v without running the function.  Together:   *)
(* every call after set returns v until one of those touches the entry.    *)
TouchesEntry(w, args) ==
    \/ \E o \in Objects :
          /\ o.func = w.func
          /\ \/ IsInvalidate(o, args)
             \/ \E drift \in Drifts : IsRefresh(o, args, drift)
             \/ \E value \in CustomValues : IsSet(o, value, args)
    \/ \E region_name \in RegionNames, hard \in BOOLEAN :
          IsInvalidateRegion(region_name, hard)
    \/ \E hard \in BOOLEAN : IsInvalidateAllRegions(hard)

ExpiresBy(w, args, t) ==
    t - EntryOf(w, args).ct > cache_regions.d[w.name].expiration_time

C2_SetThenCalls ==
    [][\A w \in WrapperIds, args \in AllArgTuples :
         BoundWrapper(w) =>
            /\ \A value \in CustomValues :
                  IsSet(w, value, args) =>
                     /\ last'.err = "" /\ last'.calls = 0
                     /\ ValidEntry(w, args)'
                     /\ EntryOf(w, args)'.payload = value
            /\ (ValidEntry(w, args) /\ ~TouchesEntry(w, args)
                   /\ ~ExpiresBy(w, args, now')) =>
                  /\ BoundWrapper(w)' /\ ValidEntry(w, args)'
                  /\ EntryOf(w, args)'.payload = EntryOf(w, args).payload
            /\ \A drift \in Drifts :
                  (ValidEntry(w, args) /\ IsCall(w, args, drift)) =>
                     /\ last'.val = EntryOf(w, args).payload
                     /\ last'.calls = 0
      ]_vars

\* a call that returned the value set for it, two time units after the set
C2_Witness ==
    /\ last.op = "call" /\ last.err = "" /\ last.calls = 0
    /\ last.obj = WrapperOf("f", "hour") /\ last.args = <<1>>
    /\ last.val = 99
    /\ BoundWrapper(last.obj)
    /\ now = EntryOf(last.obj, last.args).ct + 2

----------------------------------------------------------------------------
----------------------------------------------------------------------------
(* C4 as claimed: refresh(f, args) on a bound wrapper always runs the      *)
(* function, stores what it computed and returns it, valid entry or not.   *)
C4_RefreshAlwaysRecomputes ==
    [][\A w \in WrapperIds, args \in AllArgTuples, drift \in Drifts :
         (BoundWrapper(w) /\ IsRefresh(w, args, drift)) =>
            /\ last'.err = "" /\ last'.calls = 1
            /\ last'.val = Compute(w.func, args, drift)
            /\ EntryOf(w, args)' = CachedValue(last'.val, now')
      ]_vars

(* C4 as amended: refresh(f, args) on a bound wrapper goes through the     *)
(* cache.  With a valid entry for (f, args) it returns the stored value    *)
(* without running the function and stores that value again; with none it *)
(* runs the function once, stores what it computed and returns it.  Only   *)
(* refresh on the undecorated function object always recomputes.           *)
C4_RefreshThroughCache ==
    [][\A args \in AllArgTuples, drift \in Drifts :
         /\ \A w \in WrapperIds :
               (BoundWrapper(w) /\ IsRefresh(w, args, drift)) =>
                  /\ last'.err = ""
                  /\ IF ValidEntry(w, args)
                     THEN /\ last'.calls = 0
                          /\ last'.val = EntryOf(w, args).payload
                     ELSE /\ last'.calls = 1
                          /\ last'.val = Compute(w.func, args, drift)
                  /\ EntryOf(w, args)' = CachedValue(last'.val, now')
         /\ \A fn \in Funcs :
               (/\ Ready /\ attr[fn] \in DOMAIN cache_regions.d
                /\ IsRefresh(Plain(fn), args, drift)) =>
                  /\ last'.err = "" /\ last'.calls = 1
                  /\ last'.val = Compute(fn, args, drift)
                  /\ EntryOf(WrapperOf(fn, attr[fn]), args)' =
                        CachedValue(last'.val, now')
      ]_vars

\* a refresh of a wrapper that returned the value set before it
C4_Witness ==
    /\ last.op = "refresh" /\ last.err = "" /\ last.calls = 0
    /\ last.obj = WrapperOf("f", "hour") /\ last.args = << >>
    /\ last.val = 99
    /\ BoundWrapper(last.obj)
    /\ EntryOf(last.obj, << >>) = CachedValue(99, now)

----------------------------------------------------------------------------
----------------------------------------------------------------------------
(* C6: invalidate_region(name) on a Ready facade touches the region called *)
(* name and nothing else: the servers and every other region object are    *)
(* unchanged, no entry of a function bound to name is valid afterwards,    *)
(* and an entry of a function bound to another region that was valid stays *)
(* valid unless the time that passed expires it.  The next call of a       *)
(* function bound to name recomputes; the next call of a function bound to *)
(* another region still returns its stored value.                          *)
C6_InvalidateRegionFrame ==
    [][/\ \A region_name \in RegionNames, hard \in BOOLEAN :
            (/\ Ready /\ region_name \in DOMAIN cache_regions.d
             /\ IsInvalidateRegion(region_name, hard)) =>
               /\ last'.err = ""
               /\ store' = store
               /\ DOMAIN cache_regions'.d = DOMAIN cache_regions.d
               /\ \A n \in DOMAIN cache_regions.d \ {region_name} :
                     cache_regions'.d[n] = cache_regions.d[n]
               /\ \A w \in wrappers, args \in AllArgTuples :
                     BoundWrapper(w) =>
                        IF w.name = region_name
                        THEN ~ValidEntry(w, args)'
                        ELSE (ValidEntry(w, args) /\ ~ExpiresBy(w, args, now'))
                                => ValidEntry(w, args)'
       /\ \A w \in WrapperIds, args \in AllArgTuples, drift \in Drifts :
            (/\ last.op = "invalidate_region" /\ last.err = ""
             /\ BoundWrapper(w)
             /\ IsCall(w, args, drift)) =>
               IF last.obj.func = w.name
               THEN /\ last'.calls = 1
                    /\ last'.val = Compute(w.func, args, drift)
               ELSE ValidEntry(w, args) =>
                       /\ last'.calls = 0
                       /\ last'.val = EntryOf(w, args).payload
      ]_vars

\* "hour" was invalidated after values were set for f (bound to "hour") and
\* for g (bound to "day"): both values are still on the server, g's entry
\* is valid and f's is not
C6_Witness ==
    /\ last.op = "invalidate_region" /\ last.err = ""
    /\ last.obj = Plain("hour")
    /\ BoundWrapper(WrapperOf("f", "hour"))
    /\ BoundWrapper(WrapperOf("g", "day"))
    /\ EntryOf(WrapperOf("f", "hour"), << >>).payload = 99
    /\ EntryOf(WrapperOf("g", "day"), << >>).payload = 99
    /\ ~ValidEntry(WrapperOf("f", "hour"), << >>)
    /\ ValidEntry(WrapperOf("g", "day"), << >>)

----------------------------------------------------------------------------
(* C7: invalidate_all_regions(hard) on a Ready facade does to every        *)
(* registered region what invalidate_region(name, hard) does to it, so     *)
(* that no entry of any bound function is valid afterwards, and the next   *)
(* call of every bound function runs the function and returns what it      *)
(* computes, not a value that was set.                                     *)
C7_InvalidateAllRegions ==
    [][/\ \A hard \in BOOLEAN :
            (Ready /\ IsInvalidateAllRegions(hard)) =>
               /\ last'.err = ""
               /\ store' = store
               /\ DOMAIN cache_regions'.d = DOMAIN cache_regions.d
               /\ \A n \in DOMAIN cache_regions.d :
                     cache_regions'.d[n] =
                        InvalidateRegionResult(cache_regions, n, hard, now').d[n]
               /\ \A w \in wrappers, args \in AllArgTuples :
                     BoundWrapper(w) => ~ValidEntry(w, args)'
       /\ \A w \in WrapperIds, args \in AllArgTuples, drift \in Drifts :
            (/\ last.op = "invalidate_all_regions" /\ last.err = ""
             /\ BoundWrapper(w)
             /\ IsCall(w, args, drift)) =>
               /\ last'.err = "" /\ last'.calls = 1
               /\ last'.val = Compute(w.func, args, drift)
               /\ last'.val \notin CustomValues
      ]_vars

\* every region was invalidated after values were set for f and for g: both
\* values are still on the server and neither entry is valid
C7_Witness ==
    /\ last.op = "invalidate_all_regions" /\ last.err = ""
    /\ BoundWrapper(WrapperOf("f", "hour"))
    /\ BoundWrapper(WrapperOf("g", "day"))
    /\ EntryOf(WrapperOf("f", "hour"), << >>).payload = 99
    /\ EntryOf(WrapperOf("g", "day"), << >>).payload = 99
    /\ ~ValidEntry(WrapperOf("f", "hour"), << >>)
    /\ ~ValidEntry(WrapperOf("g", "day"), << >>)

----------------------------------------------------------------------------
\* the steps of the three lookups
IsGetRegion(region_name) ==
    last'.op = "get_region" /\ last'.obj = Plain(region_name)
    /\ GetRegion(region_name)

IsGetAllRegions == last'.op = "get_all_regions" /\ GetAllRegions

IsGetRegionDecorator(region_name) ==
    last'.op = "get_region_decorator" /\ last'.obj = Plain(region_name)
    /\ GetRegionDecorator(region_name)

\* o went through region(): the wrapper, or the function that carries the
\* attribute region() left on it
Bound(o) == Live(o) /\ RegionNameAttr(o) # NOATTR

(* C8: while the facade is Uninitialized, get_region, get_all_regions,     *)
(* get_region_decorator, invalidate_region, invalidate_all_regions, and    *)
(* invalidate, refresh and set on a function that went through region(),   *)
(* each raise RuntimeError, run no cached function and change no state.    *)
C8_UninitializedRaises ==
    [][Uninitialized =>
         /\ \A region_name \in RegionNames :
               /\ IsGetRegion(region_name) =>
                     last'.err = "RuntimeError" /\ UNCHANGED state
               /\ IsGetRegionDecorator(region_name) =>
                     last'.err = "RuntimeError" /\ UNCHANGED state
               /\ \A hard \in BOOLEAN :
                     IsInvalidateRegion(region_name, hard) =>
                        last'.err = "RuntimeError" /\ UNCHANGED state
         /\ IsGetAllRegions => last'.err = "RuntimeError" /\ UNCHANGED state
         /\ \A hard \in BOOLEAN :
               IsInvalidateAllRegions(hard) =>
                  last'.err = "RuntimeError" /\ UNCHANGED state
         /\ \A o \in Objects, args \in AllArgTuples :
               Bound(o) =>
                  /\ IsInvalidate(o, args) =>
                        /\ last'.err = "RuntimeError" /\ last'.calls = 0
                        /\ UNCHANGED state
                  /\ \A drift \in Drifts :
                        IsRefresh(o, args, drift) =>
                           /\ last'.err = "RuntimeError" /\ last'.calls = 0
                           /\ UNCHANGED state
                  /\ \A value \in CustomValues :
                        IsSet(o, value, args) =>
                           /\ last'.err = "RuntimeError" /\ last'.calls = 0
                           /\ UNCHANGED state
      ]_vars

\* set on a wrapper made before init_app has raised RuntimeError
C8_Witness ==
    /\ Uninitialized
    /\ last.op = "set" /\ last.obj = WrapperOf("f", "hour")
    /\ last.obj \in wrappers
    /\ last.err = "RuntimeError"
    /\ store = EmptyStore

----------------------------------------------------------------------------
(* C9: region(name)(f) is legal while the facade is Uninitialized and      *)
(* changes neither the registries nor the stored values, and calling the   *)
(* wrapper it returned while the facade is still Uninitialized raises      *)
(* RuntimeError, the error of the registry lookups, without running f.     *)
C9_WrapperBeforeInit ==
    [][Uninitialized =>
         /\ \A d \in Decorations :
               (last'.op = "region" /\ Decorate(d[1], d[2])) =>
                  /\ last'.err = ""
                  /\ UNCHANGED <<cache_regions, cache_regions_decorators,
                                 store>>
         /\ \A w \in WrapperIds, args \in AllArgTuples, drift \in Drifts :
               IsCall(w, args, drift) =>
                  /\ last'.err = "RuntimeError"
                  /\ last'.calls = 0
                  /\ UNCHANGED state
      ]_vars

----------------------------------------------------------------------------
(* C10: on a Ready facade, invalidate, refresh and set on a function that  *)
(* never went through region() each raise AttributeError, run no cached    *)
(* function and change neither the stored values nor the registries.       *)
C10_NeverBoundRaises ==
    [][\A fn \in Funcs, args \in AllArgTuples :
         (Ready /\ attr[fn] = NOATTR) =>
            /\ IsInvalidate(Plain(fn), args) =>
                  /\ last'.err = "AttributeError" /\ last'.calls = 0
                  /\ UNCHANGED state
            /\ \A drift \in Drifts :
                  IsRefresh(Plain(fn), args, drift) =>
                     /\ last'.err = "AttributeError" /\ last'.calls = 0
                     /\ UNCHANGED state
            /\ \A value \in CustomValues :
                  IsSet(Plain(fn), value, args) =>
                     /\ last'.err = "AttributeError" /\ last'.calls = 0
                     /\ UNCHANGED state
      ]_vars

\* refresh of the undecorated g on a facade with regions registered has
\* raised AttributeError
C10_Witness ==
    /\ Ready /\ "hour" \in DOMAIN cache_regions.d
    /\ attr["g"] = NOATTR
    /\ last.op = "refresh" /\ last.obj = Plain("g")
    /\ last.err = "AttributeError"

----------------------------------------------------------------------------
\* the steps of region(name)(fn) and of init_app(app, config)
IsDecorate(fn, name) ==
    last'.op = "region" /\ last'.obj = WrapperOf(fn, name) /\ Decorate(fn, name)

IsInitApp(config) == last'.op = "init_app" /\ InitApp(config)

(* C11: on a Ready facade, region(name)(f) with a name that is not         *)
(* registered succeeds and hands out a wrapper, and every call of that     *)
(* wrapper raises KeyError (not the AttributeError of a function that was  *)
(* never decorated), runs f not at all and stores nothing.                 *)
C11_UnknownRegionWrapper ==
    [][\A w \in WrapperIds :
         (Ready /\ w.name \notin DOMAIN cache_regions.d) =>
            /\ IsDecorate(w.func, w.name) =>
                  /\ last'.err = ""
                  /\ w \in wrappers'
                  /\ UNCHANGED <<cache_regions, cache_regions_decorators,
                                 store>>
            /\ \A args \in AllArgTuples, drift \in Drifts :
                  IsCall(w, args, drift) =>
                     /\ last'.err = "KeyError"
                     /\ last'.err # "AttributeError"
                     /\ last'.calls = 0
                     /\ UNCHANGED state
      ]_vars

\* the wrapper of f for the region "ghost" was called on a facade that has
\* "hour" registered and not "ghost", and raised KeyError
C11_Witness ==
    /\ Ready
    /\ "hour" \in DOMAIN cache_regions.d
    /\ "ghost" \notin DOMAIN cache_regions.d
    /\ last.op = "call" /\ last.obj = WrapperOf("f", "ghost")
    /\ last.obj \in wrappers
    /\ last.err = "KeyError" /\ last.calls = 0

----------------------------------------------------------------------------
(* C12: when init_app fails on a facade that is Uninitialized, whatever    *)
(* the reason and whichever tuple it fails on, no region is registered     *)
(* afterwards and the facade is still Uninitialized.                       *)
C12_InitAllOrNothing ==
    [][\A config \in Configs :
         (Uninitialized /\ IsInitApp(config) /\ last'.err # "") =>
            /\ Uninitialized'
            /\ DOMAIN cache_regions'.d = {}
            /\ DOMAIN cache_regions_decorators'.d = {}
      ]_vars

----------------------------------------------------------------------------
\* the names the tuples of a configuration declare
DeclaredNames(config) ==
    {config.regions[i][1] : i \in 1..Len(config.regions)}

\* both registries hold exactly the names the configuration declares
CompleteRegistry(config) ==
    /\ Ready
    /\ DOMAIN cache_regions.d = DeclaredNames(config)
    /\ DOMAIN cache_regions_decorators.d = DeclaredNames(config)

\* the step is a call, by a thread other than the one in init_app, of a
\* lookup, of the wrapper or of invalidate_region
ObserverStep ==
    \/ IsGetAllRegions
    \/ \E region_name \in CacheRegionNames :
          \/ IsGetRegion(region_name)
          \/ IsGetRegionDecorator(region_name)
          \/ IsInvalidateRegion(region_name, TRUE)
    \/ \E drift \in Drifts : IsCall(WrapperOf("f", "hour"), << >>, drift)

(* C13: a thread that calls a lookup, a wrapper or invalidate_region while *)
(* another thread is in init_app finds the facade either Uninitialized or  *)
(* with the complete registry of the configuration, every declared region  *)
(* together with its decorator.                                            *)
C13_NoPartialRegistry ==
    [][(init_run.pc # "idle" /\ ObserverStep) =>
          (Uninitialized \/ CompleteRegistry(init_run.config))
      ]_vars

----------------------------------------------------------------------------
\* the defects of a configuration: no regions entry, one that is no list or
\* is empty, global arguments given and not a dict, a tuple with fewer than
\* two elements, a tuple whose fifth element is not a dict
ConfigDefect(config) ==
    \/ config.regions_key = ABSENT
    \/ config.regions_key # "list"
    \/ Len(config.regions) = 0
    \/ config.arguments \notin DictValues \cup {ABSENT}
    \/ \E i \in 1..Len(config.regions) :
          \/ Len(config.regions[i]) < 2
          \/ Len(config.regions[i]) >= 5 /\ config.regions[i][5] \notin DictValues

(* C14: init_app on a configuration with one of these defects raises       *)
(* ValueError.                                                             *)
C14_ConfigErrors ==
    [][\A config \in InitConfigs :
         (ConfigDefect(config) /\ IsInitApp(config)) =>
            last'.err = "ValueError"
      ]_vars

----------------------------------------------------------------------------
\* the global backend and urls after the setdefault calls of init_app
GlobalBackend(config) == SetDefault(config.backend, "dogpile.cache.memcached")

GlobalUrls(config) == SetDefault(config.urls, NONE)

\* element pos of the tuple is a value, or else the global one is
Available(region_tuple, pos, global) ==
    \/ Len(region_tuple) >= pos /\ Truthy(region_tuple[pos])
    \/ Truthy(global)

\* every tuple of the configuration has a backend and urls available
AllAvailable(config) ==
    \A i \in 1..Len(config.regions) :
       /\ Available(config.regions[i], 3, GlobalBackend(config))
       /\ Available(config.regions[i], 4, GlobalUrls(config))

(* C15: for a configuration without the defects of C14, init_app raises    *)
(* ValueError when some tuple has neither its own nor a global backend, or *)
(* neither its own nor global urls; it succeeds when every tuple has one   *)
(* of the two for each; and every region it registers has a backend and    *)
(* urls that are not empty.                                                *)
C15_BackendUrlsResolution ==
    [][\A config \in InitConfigs :
         (~ConfigDefect(config) /\ IsInitApp(config)) =>
            /\ ~AllAvailable(config) => last'.err = "ValueError"
            /\ AllAvailable(config) => last'.err = ""
            /\ \A n \in DOMAIN cache_regions'.d :
                  /\ Truthy(cache_regions'.d[n].backend)
                  /\ Truthy(cache_regions'.d[n].url)
      ]_vars

----------------------------------------------------------------------------
\* two tuples of the configuration declare the same region name
HasDuplicateNames(config) ==
    \E i, j \in 1..Len(config.regions) :
       /\ i # j
       /\ Len(config.regions[i]) >= 1 /\ Len(config.regions[j]) >= 1
       /\ config.regions[i][1] = config.regions[j][1]

\* the names declared by more than one tuple
DuplicateNames(config) ==
    {config.regions[i][1] : i \in {i \in 1..Len(config.regions) :
        \E j \in 1..Len(config.regions) :
           i # j /\ config.regions[i][1] = config.regions[j][1]}}

(* C16: init_app on a configuration in which two tuples declare the same   *)
(* region name raises ValueError and registers no region of that name.     *)
C16_DuplicateNamesRejected ==
    [][\A config \in InitConfigs :
         (HasDuplicateNames(config) /\ IsInitApp(config)) =>
            /\ last'.err = "ValueError"
            /\ DuplicateNames(config) \cap DOMAIN cache_regions'.d = {}
      ]_vars

----------------------------------------------------------------------------
\* the facade is as the successful init_app(app, config) just left it
AfterInit(config) ==
    /\ last.op = "init_app" /\ last.err = ""
    /\ InitAppResult(config).err = ""
    /\ cache_regions = InitAppResult(config).cache_regions
    /\ cache_regions_decorators = InitAppResult(config).cache_regions_decorators

(* C17: after a successful init_app on a configuration of N tuples with N  *)
(* different names, both registries hold exactly the N declared names;     *)
(* get_all_regions returns a dict of N entries, and get_region and         *)
(* get_region_decorator succeed for every declared name and raise KeyError *)
(* for every other name.                                                   *)
C17_RegistryExactlyDeclared ==
    [][\A config \in InitConfigs :
         ~HasDuplicateNames(config) =>
            /\ (IsInitApp(config) /\ last'.err = "") =>
                  /\ Ready'
                  /\ Cardinality(DOMAIN cache_regions'.d) = Len(config.regions)
                  /\ DOMAIN cache_regions'.d = DeclaredNames(config)
                  /\ DOMAIN cache_regions_decorators'.d = DeclaredNames(config)
            /\ AfterInit(config) =>
                  /\ IsGetAllRegions =>
                        last'.err = "" /\ last'.val = Len(config.regions)
                  /\ \A region_name \in RegionNames :
                        /\ IsGetRegion(region_name) =>
                              last'.err = IF region_name \in DeclaredNames(config)
                                          THEN "" ELSE "KeyError"
                        /\ IsGetRegionDecorator(region_name) =>
                              last'.err = IF region_name \in DeclaredNames(config)
                                          THEN "" ELSE "KeyError"
      ]_vars

\* get_all_regions has returned the two regions of the test configuration
C17_Witness ==
    /\ last.op = "get_all_regions" /\ last.err = "" /\ last.val = 2
    /\ cache_regions = InitAppResult(ConfigTests).cache_regions
    /\ DOMAIN cache_regions_decorators.d = {"hour", "day"}

----------------------------------------------------------------------------
(* C18: when region.invalidate raises for some registered region,          *)
(* invalidate_all_regions(hard) still invalidates every region for which   *)
(* it does not raise, those after the failing one included, and raises an  *)
(* error itself.                                                           *)
C18_InvalidateAllContinues ==
    [][\A hard \in BOOLEAN, order \in KeyOrders(cache_regions.d) :
         \A failing \in SUBSET DOMAIN cache_regions.d :
            (/\ Ready /\ failing # {}
             /\ last'.op = "invalidate_all_regions"
             /\ InvalidateAllRegionsFailing(hard, order, failing)) =>
               /\ last'.err # ""
               /\ \A n \in DOMAIN cache_regions.d \ failing :
                     cache_regions'.d[n] =
                        RegionInvalidate(cache_regions.d[n], hard, now')
      ]_vars

----------------------------------------------------------------------------
(* C19: the region name recorded for a function, once region(name) has     *)
(* recorded one, is never changed by any later call, region(other_name) on *)
(* the same function included.                                             *)
C19_BindingImmutable ==
    [][\A fn \in Funcs : attr[fn] # NOATTR => attr'[fn] = attr[fn]]_vars

----------------------------------------------------------------------------
\* what init_app gave the region: everything but its invalidation times
Handle(r) ==
    [backend |-> r.backend, expiration_time |-> r.expiration_time,
     url |-> r.url, arguments |-> r.arguments]

(* C20: the facade leaves Uninitialized only by an init_app that succeeds, *)
(* and once it is Ready no call, a further init_app included, adds,        *)
(* removes or replaces a registered region.                                *)
C20_ReadyOnce ==
    [][/\ (Uninitialized /\ ~Uninitialized') =>
             last'.op = "init_app" /\ last'.err = ""
       /\ Ready =>
             /\ Ready'
             /\ DOMAIN cache_regions'.d = DOMAIN cache_regions.d
             /\ DOMAIN cache_regions_decorators'.d =
                   DOMAIN cache_regions_decorators.d
             /\ \A n \in DOMAIN cache_regions.d :
                   Handle(cache_regions'.d[n]) = Handle(cache_regions.d[n])
      ]_vars

----------------------------------------------------------------------------
(* C21: on a Ready facade, invalidate(o, args) for an object bound to a    *)
(* configured region raises nothing, runs no cached function and leaves    *)
(* no entry for (function, args) in that region; the two registries and    *)
(* the recorded region names are unchanged, and so is the entry that any   *)
(* wrapper looks at for any other function, any other argument tuple or    *)
(* in any other region.                                                    *)
C21_InvalidateFrame ==
    [][\A o \in Objects, args \in AllArgTuples :
         (/\ Ready /\ Bound(o)
          /\ RegionNameAttr(o) \in DOMAIN cache_regions.d
          /\ IsInvalidate(o, args)) =>
            /\ last'.err = "" /\ last'.calls = 0
            /\ ~EntryOf(WrapperOf(o.func, RegionNameAttr(o)), args)'.has
            /\ UNCHANGED <<cache_regions, cache_regions_decorators, attr,
                           wrappers>>
            /\ \A w \in wrappers, a \in AllArgTuples :
                  (/\ BoundWrapper(w)
                   /\ <<w.func, w.name, a>> #
                         <<o.func, RegionNameAttr(o), args>>) =>
                     EntryOf(w, a)' = EntryOf(w, a)
      ]_vars

====
